---------------------------- MODULE Spec2Model ----------------------------
(***************************************************************************)
(* Model of scripts/publisher/step1/migrate.py: the normalize-and-upsert   *)
(* pipeline (normalize_role, chunked, upsert_roles, load_roles,            *)
(* create_supabase_client and main).                                       *)
(*                                                                         *)
(* Python values are records [t, s, n]: t is the type tag, s the text of a *)
(* str (a sequence of one-character strings), n the number of an int or    *)
(* the truth value (0/1) of a bool.  A key that is missing from a mapping  *)
(* is the value Absent.                                                    *)
(***************************************************************************)
EXTENDS Integers, Sequences, FiniteSets, TLC

VARIABLES
    batch_size,        \* args.batch_size
    dry_run,           \* args.dry_run
    creds,             \* SUPABASE_URL and SUPABASE_KEY are both set
    file,              \* what args.file holds: [kind, content]
    pc,                \* position of the run
    exc,               \* the exception that left the running function, or "none"
    roles,             \* main: roles
    idx,               \* main: records the normalization loop has handled
    normalized_roles,  \* main: normalized_roles / upsert_roles: roles
    skipped,           \* main: skipped
    client,            \* main: the store handle has been created
    gen_idx,           \* chunked: the generator's idx
    batch,             \* upsert_roles: batch (the chunk being retried)
    ridx,              \* upsert_roles: rows of batch the retry loop has sent
    success_count,     \* upsert_roles: success_count
    failures,          \* upsert_roles: failures
    requests,          \* the upsert requests the store handle has received
    load_error,        \* main: the exception load_roles raised, caught by main
    arg,               \* argument of a directly called function
    ret                \* its result

vars == <<batch_size, dry_run, creds, file, pc, exc, roles, idx,
          normalized_roles, skipped, client, gen_idx, batch, ridx,
          success_count, failures, requests, load_error, arg, ret>>

-----------------------------------------------------------------------------
(* Bounds *)

MaxStrLen == 2
MaxRecords == 3
MaxRows == 3
MaxBatch == 3
MaxLen == 4

-----------------------------------------------------------------------------
(* Python values *)

Absent == [t |-> "absent", s |-> <<>>, n |-> 0]
None == [t |-> "none", s |-> <<>>, n |-> 0]
PyStr(chars) == [t |-> "str", s |-> chars, n |-> 0]
PyInt(k) == [t |-> "int", s |-> <<>>, n |-> k]
PyBool(b) == [t |-> "bool", s |-> <<>>, n |-> IF b THEN 1 ELSE 0]

\* str.strip() without arguments removes these
Whitespace == {" ", "\t", "\n"}

\* dict.get(key): the value, or None when the key is missing
Get(v) == IF v.t = "absent" THEN None ELSE v

\* bool(v)
Truthy(v) ==
    CASE v.t = "str" -> v.s # <<>>
      [] v.t = "int" -> v.n # 0
      [] v.t = "bool" -> v.n = 1
      [] OTHER -> FALSE

\* a or b
Or(a, b) == IF Truthy(a) THEN a ELSE b

DigitChar(d) == <<"0", "1", "2", "3", "4", "5", "6", "7", "8", "9">>[d + 1]

RECURSIVE NatStr(_)
NatStr(k) ==
    IF k < 10 THEN <<DigitChar(k)>>
    ELSE NatStr(k \div 10) \o <<DigitChar(k % 10)>>

\* str(v), as text
StrOf(v) ==
    CASE v.t = "str" -> v.s
      [] v.t = "int" -> IF v.n < 0 THEN <<"-">> \o NatStr(0 - v.n) ELSE NatStr(v.n)
      [] v.t = "bool" -> IF v.n = 1 THEN <<"T", "r", "u", "e">>
                         ELSE <<"F", "a", "l", "s", "e">>
      [] OTHER -> <<"N", "o", "n", "e">>

RECURSIVE LStrip(_)
LStrip(s) ==
    IF s # <<>> /\ Head(s) \in Whitespace THEN LStrip(Tail(s)) ELSE s

RECURSIVE RStrip(_)
RStrip(s) ==
    IF s # <<>> /\ s[Len(s)] \in Whitespace
    THEN RStrip(SubSeq(s, 1, Len(s) - 1))
    ELSE s

\* text.strip()
Strip(s) == RStrip(LStrip(s))

ensure_optional_str(value) ==
    IF value.t = "none" THEN None
    ELSE LET text == Strip(StrOf(value))
         IN  IF text # <<>> THEN PyStr(text) ELSE None

-----------------------------------------------------------------------------
(* Raw records.  kind, data and ext say what the record itself, its "data"  *)
(* and its data["extensions"] are: a dict, or "other" (a str, a number, a   *)
(* list), and for the two keys also "null" or "absent".  ext_role_id,       *)
(* data_role_id and name are data.extensions.role_id, data.role_id and      *)
(* data.name.                                                               *)

Raw(kind, data, ext, ext_role_id, data_role_id, name) ==
    [kind |-> kind, data |-> data, ext |-> ext, ext_role_id |-> ext_role_id,
     data_role_id |-> data_role_id, name |-> name]

\* the mapping normalize_role uses as data
DataOf(role_wrapper) ==
    IF role_wrapper.data = "dict"
    THEN [ext |-> role_wrapper.ext, ext_role_id |-> role_wrapper.ext_role_id,
          role_id |-> role_wrapper.data_role_id, name |-> role_wrapper.name]
    ELSE [ext |-> "absent", ext_role_id |-> Absent, role_id |-> Absent,
          name |-> Absent]

\* the mapping normalize_role uses as extensions
ExtensionsOf(data) ==
    IF data.ext = "dict" THEN [role_id |-> data.ext_role_id]
    ELSE [role_id |-> Absent]

ResolveRoleId(extensions, data) ==
    Or(Get(extensions.role_id), Get(data.role_id))

\* faulty variant of RoleIdText: the identifier is not stripped
RoleIdTextVerbatim(role_id_raw) == StrOf(role_id_raw)

\* line 109
RoleIdText(role_id_raw) == Strip(StrOf(role_id_raw))

NoRow == [role_id |-> <<>>, name |-> None]

normalize_role(role_wrapper) ==
    IF role_wrapper.kind # "dict"
    THEN [exc |-> "AttributeError", row |-> NoRow]
    ELSE LET data == DataOf(role_wrapper)
             extensions == ExtensionsOf(data)
             role_id_raw == ResolveRoleId(extensions, data)
         IN  IF ~Truthy(role_id_raw)
             THEN [exc |-> "ValueError", row |-> NoRow]
             ELSE [exc |-> "none",
                   row |-> [role_id |-> RoleIdText(role_id_raw),
                            name |-> ensure_optional_str(Get(data.name))]]

-----------------------------------------------------------------------------
(* chunked *)

Min(a, b) == IF a < b THEN a ELSE b

\* range(start, stop, step) still has the value i to give
RangeHas(i, stop, step) == (step > 0 /\ i < stop) \/ (step < 0 /\ i > stop)

\* data[lo : hi] for 0 <= lo
Slice(data, lo, hi) == SubSeq(data, lo + 1, Min(hi, Len(data)))

\* faulty variant of ChunkAt: the slice runs one element too far
ChunkAtOverlap(data, size, i) == Slice(data, i, i + size + 1)

\* the chunk the generator yields at idx
ChunkAt(data, size, i) == Slice(data, i, i + size)

RECURSIVE ChunksFrom(_, _, _)
ChunksFrom(data, size, i) ==
    IF RangeHas(i, Len(data), size)
    THEN <<ChunkAt(data, size, i)>> \o ChunksFrom(data, size, i + size)
    ELSE <<>>

\* list(chunked(data, size)); range() raises ValueError for a step of 0
chunked(data, size) ==
    IF size = 0 THEN [exc |-> "ValueError", chunks |-> <<>>]
    ELSE [exc |-> "none", chunks |-> ChunksFrom(data, size, 0)]

-----------------------------------------------------------------------------
(* load_roles *)

load_roles(f) ==
    CASE f.kind = "missing" -> [exc |-> "FileNotFoundError", roles |-> <<>>]
      [] f.kind = "malformed" -> [exc |-> "JSONDecodeError", roles |-> <<>>]
      [] f.kind = "scalar" -> [exc |-> "ValueError", roles |-> <<>>]
      [] OTHER -> [exc |-> "none", roles |-> f.content]

\* main's except ValueError block: the role_id hint of a skipped record
RoleIdHint(role) ==
    IF role.kind = "dict" /\ role.data = "dict"
    THEN IF role.ext \in {"null", "other"}
         THEN [exc |-> "AttributeError", hint |-> None]
         ELSE [exc |-> "none",
               hint |-> Or(Or(Get(IF role.ext = "dict" THEN role.ext_role_id
                                  ELSE Absent),
                              Get(role.data_role_id)),
                           PyStr(<<"U", "N", "K", "N", "O", "W", "N">>))]
    ELSE [exc |-> "none", hint |-> PyStr(<<"U", "N", "K", "N", "O", "W", "N">>)]

-----------------------------------------------------------------------------
(* Inputs *)

Chars == {" ", "a"}

RECURSIVE SeqsUpTo(_, _)
SeqsUpTo(S, k) ==
    IF k = 0 THEN {<<>>}
    ELSE LET shorter == SeqsUpTo(S, k - 1)
         IN  shorter \cup {Append(q, x) : q \in shorter, x \in S}

RoleIdValues ==
    {Absent, None, PyStr(<<"\t">>), PyInt(0), PyInt(7), PyInt(12), PyInt(0 - 3),
     PyBool(TRUE), PyBool(FALSE)}
        \cup {PyStr(q) : q \in SeqsUpTo(Chars, MaxStrLen)}

NameValues == {Absent, None, PyStr(<<" ", "a">>)}

\* every shape of raw record normalize_role is called with
AllRaw ==
    {Raw("other", "absent", "absent", Absent, Absent, Absent)}
        \cup {Raw("dict", d, "absent", Absent, Absent, Absent) :
                 d \in {"absent", "null", "other"}}
        \cup {Raw("dict", "dict", e, Absent, v, nm) :
                 e \in {"absent", "null", "other"}, v \in RoleIdValues,
                 nm \in NameValues}
        \cup {Raw("dict", "dict", "dict", u, v, nm) :
                 u \in RoleIdValues, v \in RoleIdValues, nm \in NameValues}

\* the records of the input file of a whole run
MainRaw ==
    {Raw("dict", "dict", "dict", PyStr(<<"a">>), Absent, Absent),
     Raw("dict", "dict", "absent", Absent, PyStr(<<"a", " ">>), Absent),
     Raw("dict", "dict", "dict", PyStr(<<" ">>), Absent, Absent),
     Raw("dict", "dict", "dict", Absent, Absent, Absent),
     Raw("dict", "null", "absent", Absent, Absent, Absent),
     Raw("dict", "dict", "null", Absent, Absent, Absent),
     Raw("other", "absent", "absent", Absent, Absent, Absent)}

Files ==
    {[kind |-> k, content |-> <<>>] : k \in {"missing", "malformed", "scalar"}}
        \cup {[kind |-> "object", content |-> <<r>>] :
                 r \in {x \in MainRaw : x.kind = "dict"}}
        \cup {[kind |-> "array", content |-> c] : c \in SeqsUpTo(MainRaw, MaxRecords)}

BatchSizes == (0 - 2) .. MaxBatch

\* what a failing store request raises
Errors == {"e1", "e2"}

Rows == {[role_id |-> <<"a">>, name |-> None], [role_id |-> <<"b">>, name |-> None]}

-----------------------------------------------------------------------------
(* main *)

Idle ==
    /\ exc = "none"
    /\ roles = <<>>
    /\ idx = 0
    /\ normalized_roles = <<>>
    /\ skipped = <<>>
    /\ client = FALSE
    /\ gen_idx = 0
    /\ batch = <<>>
    /\ ridx = 0
    /\ success_count = 0
    /\ failures = <<>>
    /\ requests = <<>>
    /\ load_error = "none"

Init ==
    /\ batch_size \in BatchSizes
    /\ dry_run \in BOOLEAN
    /\ creds \in BOOLEAN
    /\ file \in Files
    /\ pc = "main"
    /\ Idle
    /\ arg = <<>>
    /\ ret = <<>>

inputs == <<batch_size, dry_run, creds, file, arg>>
upsert_vars == <<gen_idx, batch, ridx, success_count, failures, requests>>

\* main, lines 225-226
BatchSizeError(size) == size <= 0

CheckBatchSize ==
    /\ pc = "main"
    /\ IF BatchSizeError(batch_size)
       THEN pc' = "raised" /\ exc' = "ValueError"
       ELSE pc' = "load" /\ exc' = exc
    /\ UNCHANGED <<inputs, roles, idx, normalized_roles, skipped, client,
                   upsert_vars, load_error, ret>>

\* main, lines 228-234
LoadRoles ==
    /\ pc = "load"
    /\ LET r == load_roles(file)
       IN  IF r.exc # "none"
           THEN /\ load_error' = r.exc
                /\ pc' = "returned"
                /\ roles' = roles
           ELSE /\ load_error' = load_error
                /\ pc' = "normalize"
                /\ roles' = r.roles
    /\ UNCHANGED <<inputs, exc, idx, normalized_roles, skipped, client,
                   upsert_vars, ret>>

SkipReason == "role_id is missing in data.extensions or data"

\* main, lines 239-251: one turn of the normalization loop
NormalizeNext ==
    /\ pc = "normalize"
    /\ idx < Len(roles)
    /\ LET role == roles[idx + 1]
           r == normalize_role(role)
           h == RoleIdHint(role)
       IN  CASE r.exc = "none" ->
                    /\ normalized_roles' = Append(normalized_roles, r.row)
                    /\ idx' = idx + 1
                    /\ UNCHANGED <<pc, exc, skipped>>
             [] r.exc = "ValueError" /\ h.exc = "none" ->
                    /\ skipped' = Append(skipped, <<h.hint, SkipReason>>)
                    /\ idx' = idx + 1
                    /\ UNCHANGED <<pc, exc, normalized_roles>>
             [] OTHER ->
                    /\ pc' = "raised"
                    /\ exc' = "AttributeError"
                    /\ UNCHANGED <<idx, normalized_roles, skipped>>
    /\ UNCHANGED <<inputs, roles, client, upsert_vars, load_error, ret>>

\* faulty variant of AfterNormalize: the dry-run flag is ignored
AfterNormalizeAlwaysWrites(dry) == "connect"

\* main, lines 258-266: a dry run returns, any other run goes on to connect
AfterNormalize(dry) == IF dry THEN "returned" ELSE "connect"

\* main, lines 253-264
NormalizeDone ==
    /\ pc = "normalize"
    /\ idx = Len(roles)
    /\ pc' = AfterNormalize(dry_run)
    /\ UNCHANGED <<inputs, exc, roles, idx, normalized_roles, skipped, client,
                   upsert_vars, load_error, ret>>

\* faulty variant of CredentialsMissing: the check is left out
CredentialsNeverMissing(c) == FALSE

\* create_supabase_client, line 162
CredentialsMissing(c) == ~c

\* main, line 266
CreateClient ==
    /\ pc = "connect"
    /\ IF CredentialsMissing(creds)
       THEN pc' = "raised" /\ exc' = "RuntimeError" /\ client' = client
       ELSE pc' = "call_upsert" /\ exc' = exc /\ client' = TRUE
    /\ UNCHANGED <<inputs, roles, idx, normalized_roles, skipped,
                   upsert_vars, load_error, ret>>

-----------------------------------------------------------------------------
(* upsert_roles *)

\* lines 187-189
UpsertEnter ==
    /\ pc = "call_upsert"
    /\ success_count' = 0
    /\ failures' = <<>>
    /\ gen_idx' = 0
    /\ pc' = "upsert"
    /\ UNCHANGED <<inputs, exc, roles, idx, normalized_roles, skipped, client,
                   batch, ridx, requests, load_error, ret>>

\* faulty variant of BatchAccepted: a batch counts as one row
BatchAcceptedOne(b) == 1

\* what success_count grows by when a batch-level request succeeds
BatchAccepted(b) == Len(b)

\* faulty variant of RetryContinues: the retry loop leaves out the last row
RetryContinuesShort(b, k) == k < Len(b) - 1

\* the retry loop has rows of b left after its k-th
RetryContinues(b, k) == k < Len(b)

\* lines 191-203 and 218: the loop head takes the next chunk and sends it
\* whole, or the generator is exhausted and upsert_roles returns.  In a
\* request, "at" is the place in roles of the first row sent.
UpsertNext ==
    /\ pc = "upsert"
    /\ IF batch_size = 0
       THEN /\ pc' = "raised"
            /\ exc' = "ValueError"
            /\ UNCHANGED upsert_vars
       ELSE IF ~RangeHas(gen_idx, Len(normalized_roles), batch_size)
       THEN /\ pc' = "returned"
            /\ UNCHANGED <<exc, upsert_vars>>
       ELSE LET b == ChunkAt(normalized_roles, batch_size, gen_idx)
            IN  \E res \in {"ok", "fail"} :
                    /\ requests' = Append(requests,
                          [kind |-> "batch", at |-> gen_idx, rows |-> b,
                           res |-> res])
                    /\ IF res = "ok"
                       THEN /\ success_count' = success_count + BatchAccepted(b)
                            /\ gen_idx' = gen_idx + batch_size
                            /\ UNCHANGED <<pc, batch, ridx>>
                       ELSE /\ pc' = "retry"
                            /\ batch' = b
                            /\ ridx' = 0
                            /\ UNCHANGED <<success_count, gen_idx>>
                    /\ UNCHANGED <<exc, failures>>
    /\ UNCHANGED <<inputs, roles, idx, normalized_roles, skipped, client,
                   load_error, ret>>

\* lines 204-216: one turn of the retry loop
UpsertSingle ==
    /\ pc = "retry"
    /\ LET role == batch[ridx + 1]
           role_id == role.role_id
       IN  \E res \in {"ok"} \cup Errors :
               /\ requests' = Append(requests,
                     [kind |-> "single", at |-> gen_idx + ridx,
                      rows |-> <<role>>, res |-> res])
               /\ IF res = "ok"
                  THEN success_count' = success_count + 1 /\ failures' = failures
                  ELSE /\ failures' = Append(failures, <<role_id, res>>)
                       /\ success_count' = success_count
               /\ IF RetryContinues(batch, ridx + 1)
                  THEN ridx' = ridx + 1 /\ UNCHANGED <<pc, gen_idx>>
                  ELSE /\ pc' = "upsert"
                       /\ gen_idx' = gen_idx + batch_size
                       /\ ridx' = ridx + 1
    /\ UNCHANGED <<inputs, exc, roles, idx, normalized_roles, skipped, client,
                   batch, load_error, ret>>

Next ==
    \/ CheckBatchSize
    \/ LoadRoles
    \/ NormalizeNext
    \/ NormalizeDone
    \/ CreateClient
    \/ UpsertEnter
    \/ UpsertNext
    \/ UpsertSingle

Spec == Init /\ [][Next]_vars

-----------------------------------------------------------------------------
(* upsert_roles called with a list of rows and a batch size *)

InitUpsert ==
    /\ batch_size \in BatchSizes
    /\ normalized_roles \in SeqsUpTo(Rows, MaxRows)
    /\ dry_run = FALSE
    /\ creds = TRUE
    /\ file = [kind |-> "array", content |-> <<>>]
    /\ pc = "call_upsert"
    /\ exc = "none"
    /\ roles = <<>>
    /\ idx = 0
    /\ skipped = <<>>
    /\ client = TRUE
    /\ gen_idx = 0
    /\ batch = <<>>
    /\ ridx = 0
    /\ success_count = 0
    /\ failures = <<>>
    /\ requests = <<>>
    /\ load_error = "none"
    /\ arg = <<>>
    /\ ret = <<>>

NextUpsert == UpsertEnter \/ UpsertNext \/ UpsertSingle

SpecUpsert == InitUpsert /\ [][NextUpsert]_vars

-----------------------------------------------------------------------------
(* normalize_role called with one raw record *)

InitNormalize ==
    /\ arg \in AllRaw
    /\ ret = <<>>
    /\ pc = "call_normalize"
    /\ batch_size = 1
    /\ dry_run = TRUE
    /\ creds = FALSE
    /\ file = [kind |-> "array", content |-> <<>>]
    /\ Idle

CallNormalize ==
    /\ pc = "call_normalize"
    /\ ret' = normalize_role(arg)
    /\ pc' = "ret_normalize"
    /\ UNCHANGED <<inputs, exc, roles, idx, normalized_roles, skipped, client,
                   upsert_vars, load_error>>

SpecNormalize == InitNormalize /\ [][CallNormalize]_vars

-----------------------------------------------------------------------------
(* chunked called with a sequence and a size *)

Items == {1, 2}

InitChunked ==
    /\ arg \in [data : SeqsUpTo(Items, MaxLen), size : BatchSizes]
    /\ ret = <<>>
    /\ pc = "call_chunked"
    /\ batch_size = 1
    /\ dry_run = TRUE
    /\ creds = FALSE
    /\ file = [kind |-> "array", content |-> <<>>]
    /\ Idle

CallChunked ==
    /\ pc = "call_chunked"
    /\ ret' = chunked(arg.data, arg.size)
    /\ pc' = "ret_chunked"
    /\ UNCHANGED <<inputs, exc, roles, idx, normalized_roles, skipped, client,
                   upsert_vars, load_error>>

SpecChunked == InitChunked /\ [][CallChunked]_vars

-----------------------------------------------------------------------------
(* The request log, read back *)

\* rows the store accepted, by the results it gave
RECURSIVE AcceptedIn(_)
AcceptedIn(log) ==
    IF log = <<>> THEN 0
    ELSE (IF Head(log).res = "ok" THEN Len(Head(log).rows) ELSE 0)
             + AcceptedIn(Tail(log))

\* (role_id of the row at that place of the input, error) of every failed
\* single-record request, in the order the requests were made
RECURSIVE FailedIn(_)
FailedIn(log) ==
    IF log = <<>> THEN <<>>
    ELSE (IF Head(log).kind = "single" /\ Head(log).res # "ok"
          THEN <<(<<normalized_roles[Head(log).at + 1].role_id, Head(log).res>>)>>
          ELSE <<>>)
             \o FailedIn(Tail(log))

\* rows covered by the batch-level requests
RECURSIVE BatchRows(_)
BatchRows(log) ==
    IF log = <<>> THEN 0
    ELSE (IF Head(log).kind = "batch" THEN Len(Head(log).rows) ELSE 0)
             + BatchRows(Tail(log))

\* log is what the two-tier strategy issues for the rows from place at on:
\* a batch-level request for the next min(batch_size, rest) rows, then, only
\* when it failed, one single-record request for each of its rows in order,
\* then the next batch.  With whole, no failed batch lacks a retry.
RECURSIVE TwoTier(_, _, _)
TwoTier(log, at, whole) ==
    IF log = <<>> THEN TRUE
    ELSE LET h == Head(log)
             n == Min(batch_size, Len(normalized_roles) - at)
         IN  /\ h.kind = "batch"
             /\ h.at = at
             /\ n >= 1
             /\ h.rows = SubSeq(normalized_roles, at + 1, at + n)
             /\ IF h.res = "ok" THEN TwoTier(Tail(log), at + n, whole)
                ELSE LET k == Min(n, Len(log) - 1)
                     IN  /\ whole => k = n
                         /\ \A j \in 1 .. k :
                                /\ log[1 + j].kind = "single"
                                /\ log[1 + j].at = at + j - 1
                                /\ log[1 + j].rows = <<normalized_roles[at + j]>>
                         /\ TwoTier(SubSeq(log, k + 2, Len(log)), at + n, whole)

\* the places of the input a request carries
PlacesOf(req) == (req.at + 1) .. (req.at + Len(req.rows))

-----------------------------------------------------------------------------
(* Claims *)

\* C1: for a positive batch size the requests issued are, batch by batch in
\* input order, one batch-level request followed, exactly when it failed, by
\* one single-record request per row of the batch in order (also after an
\* earlier row failed), before the next batch; no row is in two batch-level
\* or in two single-record requests; on return every row was in a batch.
C1_RequestSequence ==
    batch_size > 0 =>
        /\ TwoTier(requests, 0, pc # "retry")
        /\ \A i, j \in DOMAIN requests :
               (i < j /\ requests[i].kind = requests[j].kind)
                   => PlacesOf(requests[i]) \cap PlacesOf(requests[j]) = {}
        /\ pc = "returned" => BatchRows(requests) = Len(normalized_roles)

\* C1 witness: upsert_roles returned after a failed batch of two whose first row failed alone too, and a later batch
C1_Witness ==
    /\ pc = "returned"
    /\ batch_size = 2
    /\ Len(normalized_roles) = 3
    /\ Len(requests) >= 4
    /\ requests[1].res = "fail"
    /\ requests[2].res \in Errors
    /\ requests[3].kind = "single"
    /\ requests[4].kind = "batch"

\* C2: when upsert_roles has returned to main, success_count is the number
\* of rows of succeeded batch-level requests plus the number of succeeded
\* single-record requests, failures holds one (role_id, error) per failed
\* single-record request, of that row and that request, in input order, and
\* success_count + len(failures) = len(normalized_roles).
C2_Accounting ==
    (client /\ pc = "returned") =>
        /\ success_count = AcceptedIn(requests)
        /\ failures = FailedIn(requests)
        /\ success_count + Len(failures) = Len(normalized_roles)

\* C2 witness: upsert_roles returned to main with a succeeded batch of two and a failed single-record request
C2_Witness ==
    /\ client
    /\ pc = "returned"
    /\ batch_size = 2
    /\ failures # <<>>
    /\ success_count = 2
    /\ \E i \in DOMAIN requests :
           /\ requests[i].kind = "batch"
           /\ requests[i].res = "ok"
           /\ Len(requests[i].rows) = 2

\* C3: in a dry run no upsert request is ever issued and no store handle is
\* made; a dry run that returns after loading has normalized every record
\* and reports zero accepted, no failure, and one skip per record whose
\* normalization failed.
C3_DryRunWritesNothing ==
    dry_run =>
        /\ requests = <<>>
        /\ ~client
        /\ pc \notin {"connect", "call_upsert", "upsert", "retry"}
        /\ (pc = "returned" /\ load_error = "none") =>
               /\ idx = Len(roles)
               /\ success_count = 0
               /\ failures = <<>>
               /\ Len(skipped) = Cardinality({i \in DOMAIN roles :
                                     normalize_role(roles[i]).exc = "ValueError"})
               /\ Len(normalized_roles) + Len(skipped) = Len(roles)

\* C3 witness: a dry run with credentials returned with two records normalized and one skipped
C3_Witness ==
    /\ dry_run
    /\ creds
    /\ pc = "returned"
    /\ Len(normalized_roles) >= 2
    /\ skipped # <<>>

\* C4: no per-record error terminates the run: with every raw record an
\* object, whatever its data and data.extensions are, the normalization
\* loop never raises, and once it is over every record is in normalized or
\* in skipped.
C4_NoRecordErrorAborts ==
    (\A i \in DOMAIN roles : roles[i].kind = "dict") =>
        /\ exc # "AttributeError"
        /\ (pc \in {"connect", "call_upsert", "upsert", "retry", "returned"}
              /\ load_error = "none")
               => Len(normalized_roles) + Len(skipped) = Len(roles)

\* C5: every normalized record, and every row sent to the store, has a
\* non-empty role_id.
C5_RoleIdNonEmpty ==
    /\ \A i \in DOMAIN normalized_roles : normalized_roles[i].role_id # <<>>
    /\ \A i \in DOMAIN requests :
           \A j \in DOMAIN requests[i].rows : requests[i].rows[j].role_id # <<>>

\* the value the identity rule resolves: data.extensions.role_id if truthy,
\* otherwise data.role_id
C6_Resolved(raw) ==
    LET e == IF raw.data = "dict" /\ raw.ext = "dict" THEN raw.ext_role_id ELSE Absent
        d == IF raw.data = "dict" THEN raw.data_role_id ELSE Absent
    IN  IF Truthy(e) THEN e ELSE IF d.t = "absent" THEN None ELSE d

C6_Resolvable(raw) == raw.kind = "dict" /\ Truthy(C6_Resolved(raw))

\* out is text without the whitespace at its two ends
C6_Trimmed(out, text) ==
    /\ out = <<>> \/ (out[1] \notin Whitespace /\ out[Len(out)] \notin Whitespace)
    /\ \E i \in 1 .. Len(text) + 1 : \E j \in 0 .. Len(text) :
           /\ out = SubSeq(text, i, j)
           /\ \A k \in 1 .. Len(text) : (k < i \/ k > j) => text[k] \in Whitespace

\* C6 as stated: for a resolvable role_id normalize succeeds and the output
\* role_id is the string form of the resolved value, whitespace kept.
C6_RoleIdVerbatim ==
    (pc = "ret_normalize" /\ C6_Resolvable(arg)) =>
        /\ ret.exc = "none"
        /\ ret.row.role_id = StrOf(C6_Resolved(arg))

\* C6 amended: for a resolvable role_id normalize succeeds and the output
\* role_id is the string form of the resolved value with the whitespace at
\* its two ends removed.
C6_RoleIdStripped ==
    (pc = "ret_normalize" /\ C6_Resolvable(arg)) =>
        /\ ret.exc = "none"
        /\ C6_Trimmed(ret.row.role_id, StrOf(C6_Resolved(arg)))

\* C6 witness: normalize_role succeeded on an extensions.role_id with whitespace around it
C6_Witness ==
    /\ pc = "ret_normalize"
    /\ C6_Resolvable(arg)
    /\ arg.ext_role_id.t = "str"
    /\ arg.data_role_id.t = "int"
    /\ ret.row.role_id # <<>>
    /\ ret.row.role_id # StrOf(C6_Resolved(arg))

C8_ConfigErrorsRaise ==
    pc = "returned" =>
        /\ batch_size > 0
        /\ creds
        /\ file.kind \in {"object", "array"}

RECURSIVE Concat(_)
Concat(chunks) ==
    IF chunks = <<>> THEN <<>> ELSE Head(chunks) \o Concat(Tail(chunks))

\* C9: for a size n >= 1 the chunks, concatenated in order, are the input;
\* every chunk has 1..n elements and every chunk but the last has n; an
\* empty input gives no chunk.
C9_ChunksPartition ==
    (pc = "ret_chunked" /\ arg.size >= 1) =>
        /\ ret.exc = "none"
        /\ Concat(ret.chunks) = arg.data
        /\ \A i \in DOMAIN ret.chunks :
               /\ Len(ret.chunks[i]) >= 1
               /\ Len(ret.chunks[i]) <= arg.size
               /\ i < Len(ret.chunks) => Len(ret.chunks[i]) = arg.size
        /\ arg.data = <<>> => ret.chunks = <<>>

\* C9 witness: four elements in chunks of three: a full chunk and a shorter last one
C9_Witness ==
    /\ pc = "ret_chunked"
    /\ arg.size = 3
    /\ arg.data = <<1, 2, 2, 1>>
    /\ ret.chunks = <<(<<1, 2, 2>>), (<<1>>)>>

\* C10: for every size <= 0 chunked fails and yields no chunk.
C10_NonPositiveSizeFails ==
    (pc = "ret_chunked" /\ arg.size <= 0) =>
        /\ ret.exc # "none"
        /\ ret.chunks = <<>>

=============================================================================
